---- MODULE Spec2Model ----
(***************************************************************************)
(* Model of actions/actions.py: the symptom extractor                      *)
(* (clean_symptom_input), the predict-disease action                       *)
(* (ActionPredictDisease.run) and the get-disease-info action              *)
(* (ActionGetDiseaseInfo.run), over the two reference tables loaded at     *)
(* import time and the tracker's slots.                                    *)
(*                                                                         *)
(* Python strings that the code tokenizes (the user text, column names,    *)
(* symptom names) are sequences of one-character strings; disease names    *)
(* and the info table's free text are only compared and copied, and are    *)
(* TLA+ strings.  A slot is None (<<>>) or Some(v) (<<v>>).                *)
(***************************************************************************)
EXTENDS Integers, Sequences, FiniteSets, TLC

VARIABLES
    disease_symptoms,  \* the DataFrame read from disease_symptoms.csv
    disease_info,      \* the DataFrame read from disease_info.csv
    slots,             \* the tracker's slots of the conversation
    latest_message,    \* tracker.latest_message["text"] the last extraction read
    new_symptoms,      \* clean_symptom_input's result in the last turn
    events,            \* the list of SlotSet events the last run returned
    utterance,         \* what the last run passed to dispatcher.utter_message
    last_action        \* the operation that ran last

vars == <<disease_symptoms, disease_info, slots, latest_message, new_symptoms,
          events, utterance, last_action>>

-----------------------------------------------------------------------------
(* Bounds of the model *)

\* most rows of a symptom/disease table
MaxRows == 2

\* most fragments concatenated into a user text of the extractor's runs
MaxParts == 3

-----------------------------------------------------------------------------
(* Strings *)

fever == <<"f", "e", "v", "e", "r">>
cough == <<"c", "o", "u", "g", "h">>
rash == <<"r", "a", "s", "h">>
itch == <<"i", "t", "c", "h">>
ache == <<"a", "c", "h", "e">>
pain == <<"p", "a", "i", "n">>
acne == <<"a", "c", "n", "e">>
chills == <<"c", "h", "i", "l", "l", "s">>
Fever == <<"F", "e", "v", "e", "r">>
hands == <<"h", "a", "n", "d", "s">>
prognosis == <<"p", "r", "o", "g", "n", "o", "s", "i", "s">>

UpperCase ==
    <<"A", "B", "C", "D", "E", "F", "G", "H", "I", "J", "K", "L", "M",
      "N", "O", "P", "Q", "R", "S", "T", "U", "V", "W", "X", "Y", "Z">>

LowerCase ==
    <<"a", "b", "c", "d", "e", "f", "g", "h", "i", "j", "k", "l", "m",
      "n", "o", "p", "q", "r", "s", "t", "u", "v", "w", "x", "y", "z">>

\* the characters re's \s and str.strip() take for whitespace
WhiteSpace == {" ", "\t", "\n", "\r"}

\* the characters of the pattern [,\s]
Separators == WhiteSpace \cup {","}

\* the lower-case letter of each upper-case letter
LowerOf ==
    [c \in {UpperCase[i] : i \in DOMAIN UpperCase} |->
        LowerCase[CHOOSE i \in DOMAIN UpperCase : UpperCase[i] = c]]

\* str.lower() on one character
LowerChar(c) == IF c \in DOMAIN LowerOf THEN LowerOf[c] ELSE c

\* str.lower()
Lower(s) == [i \in DOMAIN s |-> LowerChar(s[i])]

\* s.startswith(p)
StartsWith(s, p) ==
    /\ Len(p) <= Len(s)
    /\ \A i \in DOMAIN p : s[i] = p[i]

\* s[n:]
Drop(s, n) == [i \in 1 .. (Len(s) - n) |-> s[i + n]]

RECURSIVE Replace(_, _, _)
\* str.replace(old, new) for a non-empty old: the occurrences of old, found
\* left to right and not overlapping, each replaced by new
Replace(s, old, new) ==
    IF Len(s) < Len(old) THEN s
    ELSE IF StartsWith(s, old)
         THEN new \o Replace(Drop(s, Len(old)), old, new)
         ELSE <<s[1]>> \o Replace(Tail(s), old, new)

RECURSIVE SplitFrom(_, _, _)
\* re.split(r"[,\s]+", s) continued at the rest s, cur being the token read so
\* far and inSep whether the last character read was a separator
SplitFrom(s, cur, inSep) ==
    IF s = <<>> THEN <<cur>>
    ELSE IF s[1] \in Separators
         THEN IF inSep THEN SplitFrom(Tail(s), cur, TRUE)
              ELSE <<cur>> \o SplitFrom(Tail(s), <<>>, TRUE)
         ELSE SplitFrom(Tail(s), cur \o <<s[1]>>, FALSE)

\* re.split(r"[,\s]+", s): the pieces between the runs of separators, an empty
\* piece at an end where s starts or ends with a separator
Split(s) == SplitFrom(s, <<>>, FALSE)

RECURSIVE LStrip(_)
LStrip(s) == IF s # <<>> /\ s[1] \in WhiteSpace THEN LStrip(Tail(s)) ELSE s

RECURSIVE RStrip(_)
RStrip(s) ==
    IF s # <<>> /\ s[Len(s)] \in WhiteSpace
    THEN RStrip(SubSeq(s, 1, Len(s) - 1))
    ELSE s

\* str.strip()
Strip(s) == RStrip(LStrip(s))

\* x in xs, for a list xs
InList(x, xs) == \E i \in DOMAIN xs : xs[i] = x

-----------------------------------------------------------------------------
(* DataFrames: [columns |-> the header, rows |-> the rows, each a sequence  *)
(* of cells aligned with the header]                                       *)

\* name in df.columns
HasColumn(df, name) == InList(name, df.columns)

\* the position of the column called name
ColumnIndex(df, name) == CHOOSE i \in DOMAIN df.columns : df.columns[i] = name

\* df[name].tolist()
ColumnValues(df, name) ==
    [r \in DOMAIN df.rows |-> df.rows[r][ColumnIndex(df, name)]]

\* df[df[name] == value]
RowsWhere(df, name, value) ==
    [df EXCEPT !.rows =
        SelectSeq(df.rows, LAMBDA row : row[ColumnIndex(df, name)] = value)]

RECURSIVE SumList(_)
SumList(xs) == IF xs = <<>> THEN 0 ELSE xs[1] + SumList(Tail(xs))

\* df[name].sum()
ColumnSum(df, name) == SumList(ColumnValues(df, name))

-----------------------------------------------------------------------------
(* Module level of actions.py *)

\* all_symptoms = [col.lower() for col in disease_symptoms.columns
\*                 if col != "prognosis"]
all_symptoms ==
    LET kept == SelectSeq(disease_symptoms.columns, LAMBDA col : col # prognosis)
    IN  [i \in DOMAIN kept |-> Lower(kept[i])]

filler_words ==
    << <<"i", " ", "h", "a", "v", "e">>,
       <<"i", " ", "a", "m">>,
       <<"i", " ", "f", "e", "e", "l">>,
       <<"i", "'", "m">>,
       <<"h", "a", "v", "i", "n", "g">>,
       <<"s", "u", "f", "f", "e", "r", "i", "n", "g", " ", "f", "r", "o", "m">>,
       <<"g", "o", "t">>,
       <<"w", "i", "t", "h">>,
       <<"a", "l", "s", "o">>,
       <<"a", "n", "d">> >>

RECURSIVE RemoveFillers_Join(_, _)
\* RemoveFillers, each filler phrase replaced by nothing instead of a space
RemoveFillers_Join(text, words) ==
    IF words = <<>> THEN text
    ELSE RemoveFillers_Join(Replace(text, words[1], <<>>), Tail(words))

RECURSIVE RemoveFillers(_, _)
\* for word in words: text = text.replace(word, " ")
RemoveFillers(text, words) ==
    IF words = <<>> THEN text
    ELSE RemoveFillers(Replace(text, words[1], <<" ">>), Tail(words))

\* clean_symptom_input(user_input)
clean_symptom_input(user_input) ==
    LET text == RemoveFillers(Lower(user_input), filler_words)
        tokens == Split(text)
        kept == SelectSeq(tokens, LAMBDA t : InList(Strip(t), all_symptoms))
    IN  [i \in DOMAIN kept |-> Strip(kept[i])]

-----------------------------------------------------------------------------
(* The tracker's slots and the events a run returns *)

None == <<>>
Some(v) == <<v>>

SlotNames ==
    {"symptoms", "possible_diseases", "predicted_disease",
     "remaining_symptoms_to_ask"}

\* SlotSet(key, value)
SlotSet(key, value) == [key |-> key, value |-> value]

RECURSIVE ApplyEvents(_, _)
\* the tracker after the framework applied the returned events in order
ApplyEvents(s, evs) ==
    IF evs = <<>> THEN s
    ELSE ApplyEvents([s EXCEPT ![evs[1].key] = Some(evs[1].value)], Tail(evs))

\* SlotOrEmptyList reading a slot that is never set
SlotOrEmptyList_Forgets(name) == <<>>

\* tracker.get_slot(name) or []
SlotOrEmptyList(name) == IF slots[name] = None THEN <<>> ELSE slots[name][1]

\* the elements of a list, as a set
ToSet(xs) == {xs[i] : i \in DOMAIN xs}

\* ListOfSet without the set(): the list as it is, duplicates kept
ListOfSet_KeepsDuplicates(xs) == {xs}

\* list(set(xs)): the distinct elements of xs, in an order the hash seed decides
ListOfSet(xs) ==
    LET S == ToSet(xs)
    IN  {l \in [1 .. Cardinality(S) -> S] : \A i, j \in DOMAIN l : l[i] = l[j] => i = j}

\* Take without the slice
Take_All(xs, n) == xs

\* xs[:n]
Take(xs, n) == IF Len(xs) <= n THEN xs ELSE SubSeq(xs, 1, n)

-----------------------------------------------------------------------------
(* ActionPredictDisease.run *)

\* FilterCandidates, the loop left after the first symptom
FilterCandidates_FirstOnly(candidates, syms) ==
    IF syms = <<>> THEN candidates
    ELSE IF HasColumn(candidates, syms[1])
         THEN RowsWhere(candidates, syms[1], 1)
         ELSE candidates

\* FilterCandidates, each symptom filtering the whole table instead of the
\* candidates left so far, so that the last symptom alone decides
FilterCandidates_LastOnly(candidates, syms) ==
    IF syms = <<>> THEN candidates
    ELSE IF HasColumn(candidates, syms[Len(syms)])
         THEN RowsWhere(candidates, syms[Len(syms)], 1)
         ELSE candidates

RECURSIVE FilterCandidates(_, _)
\* for sym in syms:
\*     if sym in candidates.columns: candidates = candidates[candidates[sym] == 1]
FilterCandidates(candidates, syms) ==
    IF syms = <<>> THEN candidates
    ELSE FilterCandidates(
             IF HasColumn(candidates, syms[1])
             THEN RowsWhere(candidates, syms[1], 1)
             ELSE candidates,
             Tail(syms))

\* RemainingSymptoms without the test that the symptom is not known yet
RemainingSymptoms_AsksKnown(candidate_diseases, updated_symptoms) ==
    SelectSeq(all_symptoms,
              LAMBDA sym : /\ HasColumn(candidate_diseases, sym)
                           /\ ColumnSum(candidate_diseases, sym) > 0)

\* remaining_symptoms of the ambiguous branch: the symptoms of all_symptoms, in
\* its order, not in updated_symptoms, that are a column whose sum over the
\* candidates is positive
RemainingSymptoms(candidate_diseases, updated_symptoms) ==
    SelectSeq(all_symptoms,
              LAMBDA sym : /\ ~InList(sym, updated_symptoms)
                           /\ HasColumn(candidate_diseases, sym)
                           /\ ColumnSum(candidate_diseases, sym) > 0)

\* disease_info[disease_info["disease"] == disease]
InfoRows(disease) == SelectSeq(disease_info, LAMBDA row : row.disease = disease)

\* PredictResult, a unique match decided by the number of distinct disease names
PredictResult_DistinctNames(updated_symptoms) ==
    LET candidate_diseases == FilterCandidates(disease_symptoms, updated_symptoms)
        possible_diseases == ColumnValues(candidate_diseases, prognosis)
        final_disease == possible_diseases[1]
        details == InfoRows(final_disease)
        remaining_symptoms == RemainingSymptoms(candidate_diseases, updated_symptoms)
    IN  IF possible_diseases = <<>>
        THEN [events |-> <<SlotSet("symptoms", updated_symptoms),
                           SlotSet("possible_diseases", <<>>)>>,
              utterance |-> [kind |-> "no_match"]]
        ELSE IF Cardinality(ToSet(possible_diseases)) = 1
        THEN [events |-> <<SlotSet("symptoms", updated_symptoms),
                           SlotSet("possible_diseases", <<final_disease>>),
                           SlotSet("predicted_disease", final_disease)>>,
              utterance |->
                  IF details # <<>>
                  THEN [kind |-> "most_likely_with_details",
                        disease |-> final_disease,
                        description |-> details[1].description,
                        treatment |-> details[1].treatment,
                        prevention |-> details[1].prevention]
                  ELSE [kind |-> "most_likely", disease |-> final_disease]]
        ELSE [events |-> <<SlotSet("symptoms", updated_symptoms),
                           SlotSet("possible_diseases", possible_diseases),
                           SlotSet("remaining_symptoms_to_ask",
                                   Take(remaining_symptoms, 5))>>,
              utterance |->
                  IF remaining_symptoms # <<>>
                  THEN [kind |-> "ask_symptoms",
                        symptoms |-> Take(remaining_symptoms, 5)]
                  ELSE [kind |-> "possible_diseases",
                        diseases |-> possible_diseases]]

\* PredictResult, a unique match also emptying remaining_symptoms_to_ask
PredictResult_ClearsRemaining(updated_symptoms) ==
    LET candidate_diseases == FilterCandidates(disease_symptoms, updated_symptoms)
        possible_diseases == ColumnValues(candidate_diseases, prognosis)
        final_disease == possible_diseases[1]
        details == InfoRows(final_disease)
        remaining_symptoms == RemainingSymptoms(candidate_diseases, updated_symptoms)
    IN  IF possible_diseases = <<>>
        THEN [events |-> <<SlotSet("symptoms", updated_symptoms),
                           SlotSet("possible_diseases", <<>>)>>,
              utterance |-> [kind |-> "no_match"]]
        ELSE IF Len(possible_diseases) = 1
        THEN [events |-> <<SlotSet("symptoms", updated_symptoms),
                           SlotSet("possible_diseases", <<final_disease>>),
                           SlotSet("predicted_disease", final_disease),
                           SlotSet("remaining_symptoms_to_ask", <<>>)>>,
              utterance |->
                  IF details # <<>>
                  THEN [kind |-> "most_likely_with_details",
                        disease |-> final_disease,
                        description |-> details[1].description,
                        treatment |-> details[1].treatment,
                        prevention |-> details[1].prevention]
                  ELSE [kind |-> "most_likely", disease |-> final_disease]]
        ELSE [events |-> <<SlotSet("symptoms", updated_symptoms),
                           SlotSet("possible_diseases", possible_diseases),
                           SlotSet("remaining_symptoms_to_ask",
                                   Take(remaining_symptoms, 5))>>,
              utterance |->
                  IF remaining_symptoms # <<>>
                  THEN [kind |-> "ask_symptoms",
                        symptoms |-> Take(remaining_symptoms, 5)]
                  ELSE [kind |-> "possible_diseases",
                        diseases |-> possible_diseases]]

\* what run returns and utters once the symptoms were merged into
\* updated_symptoms
PredictResult(updated_symptoms) ==
    LET candidate_diseases == FilterCandidates(disease_symptoms, updated_symptoms)
        possible_diseases == ColumnValues(candidate_diseases, prognosis)
        final_disease == possible_diseases[1]
        details == InfoRows(final_disease)
        remaining_symptoms == RemainingSymptoms(candidate_diseases, updated_symptoms)
    IN  IF possible_diseases = <<>>
        THEN [events |-> <<SlotSet("symptoms", updated_symptoms),
                           SlotSet("possible_diseases", <<>>)>>,
              utterance |-> [kind |-> "no_match"]]
        ELSE IF Len(possible_diseases) = 1
        THEN [events |-> <<SlotSet("symptoms", updated_symptoms),
                           SlotSet("possible_diseases", <<final_disease>>),
                           SlotSet("predicted_disease", final_disease)>>,
              utterance |->
                  IF details # <<>>
                  THEN [kind |-> "most_likely_with_details",
                        disease |-> final_disease,
                        description |-> details[1].description,
                        treatment |-> details[1].treatment,
                        prevention |-> details[1].prevention]
                  ELSE [kind |-> "most_likely", disease |-> final_disease]]
        ELSE [events |-> <<SlotSet("symptoms", updated_symptoms),
                           SlotSet("possible_diseases", possible_diseases),
                           SlotSet("remaining_symptoms_to_ask",
                                   Take(remaining_symptoms, 5))>>,
              utterance |->
                  IF remaining_symptoms # <<>>
                  THEN [kind |-> "ask_symptoms",
                        symptoms |-> Take(remaining_symptoms, 5)]
                  ELSE [kind |-> "possible_diseases",
                        diseases |-> possible_diseases]]

\* ActionPredictDisease_run without the early return on no recognized symptom
ActionPredictDisease_run_NoEarlyReturn(text) ==
    \E extracted \in {clean_symptom_input(text)} :
        /\ latest_message' = text
        /\ new_symptoms' = extracted
        /\ last_action' = "action_predict_disease"
        /\ IF FALSE
           THEN /\ utterance' = [kind |-> "rephrase"]
                /\ events' = <<>>
           ELSE \E updated_symptoms \in
                       ListOfSet(SlotOrEmptyList("symptoms") \o extracted) :
                    \E result \in {PredictResult(updated_symptoms)} :
                        /\ events' = result.events
                        /\ utterance' = result.utterance
        /\ slots' = ApplyEvents(slots, events')
        /\ UNCHANGED <<disease_symptoms, disease_info>>

\* ActionPredictDisease_run without the merge with the stored symptoms
ActionPredictDisease_run_NoMerge(text) ==
    \E extracted \in {clean_symptom_input(text)} :
        /\ latest_message' = text
        /\ new_symptoms' = extracted
        /\ last_action' = "action_predict_disease"
        /\ IF extracted = <<>>
           THEN /\ utterance' = [kind |-> "rephrase"]
                /\ events' = <<>>
           ELSE \E updated_symptoms \in
                       ListOfSet(extracted) :
                    \E result \in {PredictResult(updated_symptoms)} :
                        /\ events' = result.events
                        /\ utterance' = result.utterance
        /\ slots' = ApplyEvents(slots, events')
        /\ UNCHANGED <<disease_symptoms, disease_info>>

\* one turn of action_predict_disease on the user message text, the returned
\* events applied to the tracker
ActionPredictDisease_run(text) ==
    \E extracted \in {clean_symptom_input(text)} :
        /\ latest_message' = text
        /\ new_symptoms' = extracted
        /\ last_action' = "action_predict_disease"
        /\ IF extracted = <<>>
           THEN /\ utterance' = [kind |-> "rephrase"]
                /\ events' = <<>>
           ELSE \E updated_symptoms \in
                       ListOfSet(SlotOrEmptyList("symptoms") \o extracted) :
                    \E result \in {PredictResult(updated_symptoms)} :
                        /\ events' = result.events
                        /\ utterance' = result.utterance
        /\ slots' = ApplyEvents(slots, events')
        /\ UNCHANGED <<disease_symptoms, disease_info>>

-----------------------------------------------------------------------------
(* ActionGetDiseaseInfo.run *)

\* ActionGetDiseaseInfo_run reporting the last matching row
ActionGetDiseaseInfo_run_LastRow ==
    LET disease == slots["predicted_disease"]
        info == InfoRows(disease[1])
    IN  /\ last_action' = "action_get_disease_info"
        /\ events' = <<>>
        /\ utterance' =
               IF disease = None \/ disease = Some("")
               THEN [kind |-> "which_disease"]
               ELSE IF info # <<>>
               THEN [kind |-> "details",
                     description |-> info[Len(info)].description,
                     treatment |-> info[Len(info)].treatment,
                     prevention |-> info[Len(info)].prevention]
               ELSE [kind |-> "no_details", disease |-> disease[1]]
        /\ slots' = ApplyEvents(slots, events')
        /\ UNCHANGED <<disease_symptoms, disease_info, latest_message, new_symptoms>>

\* one turn of action_get_disease_info
ActionGetDiseaseInfo_run ==
    LET disease == slots["predicted_disease"]
        info == InfoRows(disease[1])
    IN  /\ last_action' = "action_get_disease_info"
        /\ events' = <<>>
        /\ utterance' =
               IF disease = None \/ disease = Some("")
               THEN [kind |-> "which_disease"]
               ELSE IF info # <<>>
               THEN [kind |-> "details",
                     description |-> info[1].description,
                     treatment |-> info[1].treatment,
                     prevention |-> info[1].prevention]
               ELSE [kind |-> "no_details", disease |-> disease[1]]
        /\ slots' = ApplyEvents(slots, events')
        /\ UNCHANGED <<disease_symptoms, disease_info, latest_message, new_symptoms>>

-----------------------------------------------------------------------------
(* The inputs: reference tables and user texts *)

\* the headers of disease_symptoms.csv, without the prognosis column: one all
\* lower-case, one with a capitalised column name
Headers ==
    { <<fever, cough, rash, itch, ache, pain, acne>>,
      <<Fever, cough, rash, itch, ache, pain, acne>> }

\* the rows of disease_symptoms.csv: symptom cells aligned with a header, then
\* the prognosis
SymptomRows ==
    { <<1, 1, 1, 1, 1, 1, 1, "flu">>,
      <<1, 1, 0, 0, 0, 0, 0, "flu">>,
      <<1, 0, 1, 0, 0, 0, 0, "measles">>,
      <<0, 1, 0, 1, 1, 0, 0, "measles">> }

SymptomTables ==
    { [columns |-> h \o <<prognosis>>, rows |-> r] :
        h \in Headers,
        r \in UNION {[1 .. n -> SymptomRows] : n \in 0 .. MaxRows} }

InfoRow(d, v) ==
    [disease |-> d,
     description |-> <<"description", d, v>>,
     treatment |-> <<"treatment", d, v>>,
     prevention |-> <<"prevention", d, v>>]

\* the rows of disease_info.csv: two rows for one disease, none for the other
InfoTables == { <<InfoRow("flu", "a"), InfoRow("flu", "b")>> }

IHave == <<"I", " ", "h", "a", "v", "e", " ">>
AndWord == <<" ", "a", "n", "d", " ">>
Comma == <<",", " ">>

\* the user messages of a session
SessionMessages ==
    { <<>>,
      IHave \o chills,
      IHave \o fever,
      IHave \o rash,
      fever \o AndWord \o cough,
      Fever \o Comma \o fever,
      cough \o AndWord \o chills }

-----------------------------------------------------------------------------
(* A conversation *)

Init ==
    /\ disease_symptoms \in SymptomTables
    /\ disease_info \in InfoTables
    /\ slots = [n \in SlotNames |-> None]
    /\ latest_message = <<>>
    /\ new_symptoms = <<>>
    /\ events = <<>>
    /\ utterance = [kind |-> "none"]
    /\ last_action = "none"

PredictDisease == \E text \in SessionMessages : ActionPredictDisease_run(text)

GetDiseaseInfo == ActionGetDiseaseInfo_run

Next == PredictDisease \/ GetDiseaseInfo

Spec == Init /\ [][Next]_vars

-----------------------------------------------------------------------------
(* The extractor alone, applied once to a user text *)

\* the pieces user texts are put together from
Fragments ==
    { fever, cough, chills, hands, Fever, IHave,
      <<"a", "n", "d">>, <<"f", "e">>, <<"v", "e", "r">>, <<" ">>, <<",">> }

RECURSIVE Concat(_)
\* "".join(parts)
Concat(parts) == IF parts = <<>> THEN <<>> ELSE parts[1] \o Concat(Tail(parts))

\* the user texts of up to MaxParts fragments
Texts == {Concat(ps) : ps \in UNION {[1 .. n -> Fragments] : n \in 0 .. MaxParts}}

\* the headers of the extractor's runs: those of the conversations, and one
\* with a symptom name in which a filler phrase occurs
ExtractHeaders == Headers \cup { <<fever, cough, rash, itch, ache, pain, hands>> }

InitExtract ==
    /\ disease_symptoms \in
           {[columns |-> h \o <<prognosis>>, rows |-> <<>>] : h \in ExtractHeaders}
    /\ disease_info = <<>>
    /\ slots = [n \in SlotNames |-> None]
    /\ latest_message \in Texts
    /\ new_symptoms = <<>>
    /\ events = <<>>
    /\ utterance = [kind |-> "none"]
    /\ last_action = "none"

\* new_symptoms = clean_symptom_input(user_message)
CleanSymptomInput ==
    /\ last_action = "none"
    /\ new_symptoms' = clean_symptom_input(latest_message)
    /\ last_action' = "clean_symptom_input"
    /\ UNCHANGED <<disease_symptoms, disease_info, slots, latest_message, events,
                   utterance>>

NextExtract == CleanSymptomInput

SpecExtract == InitExtract /\ [][NextExtract]_vars

-----------------------------------------------------------------------------
(* Vocabulary of the properties *)

\* the last run was a predict-disease turn whose message yielded a symptom
RecognizedTurn == last_action = "action_predict_disease" /\ new_symptoms # <<>>

\* the rows of the table in which every symptom of syms that is a column is 1
SurvivingRows(syms) ==
    SelectSeq(disease_symptoms.rows,
              LAMBDA row :
                  \A i \in DOMAIN syms :
                      HasColumn(disease_symptoms, syms[i]) =>
                          row[ColumnIndex(disease_symptoms, syms[i])] = 1)

\* their disease names, in row order
SurvivingNames(syms) ==
    [r \in DOMAIN SurvivingRows(syms) |->
        SurvivingRows(syms)[r][ColumnIndex(disease_symptoms, prognosis)]]

\* the keys of the events the last run returned, in order
EventKeys == [i \in DOMAIN events |-> events[i].key]

\* the value the last run wrote to the slot key (key being among EventKeys)
Written(key) == events[CHOOSE i \in DOMAIN events : events[i].key = key].value

\* the last run wrote the slot key
Wrote(key) == InList(key, EventKeys)

-----------------------------------------------------------------------------
(* C1: once a predict-disease turn has recognized a symptom, possible_diseases
   is the list of the disease names, in row order and duplicates kept, of
   exactly the rows in which every symptom of the symptoms slot that is a
   column is 1; symptoms that are no column are ignored. *)
C1_PossibleDiseasesMatchSymptoms ==
    slots["symptoms"] # None =>
        slots["possible_diseases"] = Some(SurvivingNames(slots["symptoms"][1]))

\* a stored symptom that is no column was ignored, and two rows with the same
\* disease name survived
C1_Witness ==
    /\ slots["symptoms"] # None
    /\ \E i \in DOMAIN slots["symptoms"][1] :
           ~HasColumn(disease_symptoms, slots["symptoms"][1][i])
    /\ \E i \in DOMAIN slots["symptoms"][1] :
           HasColumn(disease_symptoms, slots["symptoms"][1][i])
    /\ Len(slots["possible_diseases"][1]) = 2
    /\ slots["possible_diseases"][1][1] = slots["possible_diseases"][1][2]

(* C2: a recognized predict-disease turn writes predicted_disease if and only
   if exactly one row survives the filter; when two or more rows survive, also
   when they all carry one disease name, predicted_disease is not written and
   possible_diseases holds the name of every surviving row, once per row. *)
C2_UniqueByRowCount ==
    RecognizedTurn =>
        LET names == SurvivingNames(Written("symptoms"))
        IN  /\ Wrote("predicted_disease") <=> Len(names) = 1
            /\ Len(names) >= 2 =>
                   /\ ~Wrote("predicted_disease")
                   /\ Wrote("remaining_symptoms_to_ask")
                   /\ Written("possible_diseases") = names
                   /\ utterance.kind \in {"ask_symptoms", "possible_diseases"}

\* two rows of one disease survived, and the turn was treated as ambiguous
C2_Witness ==
    /\ RecognizedTurn
    /\ Len(SurvivingNames(Written("symptoms"))) = 2
    /\ ToSet(SurvivingNames(Written("symptoms"))) = {"flu"}
    /\ ~Wrote("predicted_disease")
    /\ Written("possible_diseases") = <<"flu", "flu">>

(* C3: a predict-disease turn whose message yields no recognized symptom
   returns no slot update and sends the rephrase prompt, so no slot changes,
   whatever was stored before. *)
C3_NothingRecognizedChangesNothing ==
    [][(last_action' = "action_predict_disease" /\ new_symptoms' = <<>>) =>
           /\ events' = <<>>
           /\ utterance' = [kind |-> "rephrase"]
           /\ slots' = slots]_vars

\* the rephrase prompt was sent in a conversation that had stored symptoms, a
\* prediction and symptoms to ask
C3_Witness ==
    /\ last_action = "action_predict_disease"
    /\ new_symptoms = <<>>
    /\ utterance.kind = "rephrase"
    /\ slots["symptoms"] # None
    /\ slots["predicted_disease"] # None
    /\ slots["remaining_symptoms_to_ask"] # None

(* C4: each result kind writes only its own slots.  A turn with no surviving
   row sets symptoms and possible_diseases = [] and leaves predicted_disease
   and remaining_symptoms_to_ask as they were; a turn with one surviving row,
   of disease d, sets symptoms, possible_diseases = [d] and
   predicted_disease = d and leaves remaining_symptoms_to_ask; a turn with
   more surviving rows sets symptoms, possible_diseases and
   remaining_symptoms_to_ask and leaves predicted_disease. *)
C4_EachKindWritesItsSlots ==
    [][(last_action' = "action_predict_disease" /\ new_symptoms' # <<>>) =>
           LET names == SurvivingNames(slots'["symptoms"][1])
           IN  /\ slots'["symptoms"] # None
               /\ ToSet(slots'["symptoms"][1]) =
                      ToSet(SlotOrEmptyList("symptoms")) \cup ToSet(new_symptoms')
               /\ Len(names) = 0 =>
                      /\ utterance'.kind = "no_match"
                      /\ slots'["possible_diseases"] = Some(<<>>)
                      /\ slots'["predicted_disease"] = slots["predicted_disease"]
                      /\ slots'["remaining_symptoms_to_ask"] =
                             slots["remaining_symptoms_to_ask"]
               /\ Len(names) = 1 =>
                      /\ utterance'.kind \in {"most_likely", "most_likely_with_details"}
                      /\ slots'["possible_diseases"] = Some(<<names[1]>>)
                      /\ slots'["predicted_disease"] = Some(names[1])
                      /\ slots'["remaining_symptoms_to_ask"] =
                             slots["remaining_symptoms_to_ask"]
               /\ Len(names) > 1 =>
                      /\ utterance'.kind \in {"ask_symptoms", "possible_diseases"}
                      /\ slots'["possible_diseases"] = Some(names)
                      /\ slots'["remaining_symptoms_to_ask"] # None
                      /\ slots'["predicted_disease"] = slots["predicted_disease"]]_vars

\* a turn ended in no match while a prediction and symptoms to ask, written by
\* earlier turns, were still stored
C4_Witness ==
    /\ RecognizedTurn
    /\ utterance.kind = "no_match"
    /\ EventKeys = <<"symptoms", "possible_diseases">>
    /\ slots["predicted_disease"] # None
    /\ slots["remaining_symptoms_to_ask"] # None

(* C5: in every ambiguous turn the list written to remaining_symptoms_to_ask
   has at most 5 entries and holds no symptom of the symptoms value the same
   turn wrote. *)
C5_RemainingAtMostFiveAndUnknown ==
    (RecognizedTurn /\ Wrote("remaining_symptoms_to_ask")) =>
        /\ Len(Written("remaining_symptoms_to_ask")) <= 5
        /\ \A i \in DOMAIN Written("remaining_symptoms_to_ask") :
               ~InList(Written("remaining_symptoms_to_ask")[i], Written("symptoms"))

\* an ambiguous turn in which six unknown symptoms were still exhibited by the
\* candidates, and five were written
C5_Witness ==
    /\ RecognizedTurn
    /\ Wrote("remaining_symptoms_to_ask")
    /\ Len(Written("remaining_symptoms_to_ask")) = 5
    /\ Cardinality({i \in DOMAIN all_symptoms :
                       /\ ~InList(all_symptoms[i], Written("symptoms"))
                       /\ \E r \in DOMAIN SurvivingRows(Written("symptoms")) :
                              SurvivingRows(Written("symptoms"))[r][i] = 1}) = 6

\* the vocabulary symptoms, in the vocabulary's order, that are not in syms and
\* whose column has a 1 in a row surviving syms; the i-th symptom's column is
\* the i-th column of the table (the prognosis stands last)
ExhibitedUnknown(syms) ==
    LET positions ==
            SelectSeq([i \in DOMAIN all_symptoms |-> i],
                      LAMBDA i : /\ ~InList(all_symptoms[i], syms)
                                 /\ \E r \in DOMAIN SurvivingRows(syms) :
                                        SurvivingRows(syms)[r][i] = 1)
    IN  [k \in DOMAIN positions |-> all_symptoms[positions[k]]]

\* the first five entries of xs, or all of a shorter xs
FirstFive(xs) == [k \in 1 .. (IF Len(xs) < 5 THEN Len(xs) ELSE 5) |-> xs[k]]

(* C12: in every ambiguous turn the list written to
   remaining_symptoms_to_ask is the first five (or all, if fewer) of the
   symptoms, in the vocabulary's order, that are not in the updated symptoms
   and whose column sums to more than zero over the candidate rows; the
   follow-up question is sent if and only if that list is not empty, and
   otherwise all candidate disease names are enumerated. *)
C12_RemainingAreFirstFiveExhibited ==
    (RecognizedTurn /\ Len(SurvivingRows(Written("symptoms"))) >= 2) =>
        LET expected == FirstFive(ExhibitedUnknown(Written("symptoms")))
        IN  /\ Written("remaining_symptoms_to_ask") = expected
            /\ IF expected # <<>>
               THEN utterance = [kind |-> "ask_symptoms", symptoms |-> expected]
               ELSE utterance = [kind |-> "possible_diseases",
                                 diseases |-> SurvivingNames(Written("symptoms"))]

(* C6: narrowing is monotonic across a conversation: after a turn that
   recognized a symptom, possible_diseases is never longer than it was after
   the turn that wrote it before; the candidate rows of the merged symptoms
   are among the candidate rows of the symptoms stored before. *)
C6_NarrowingIsMonotonic ==
    [][(last_action' = "action_predict_disease" /\ new_symptoms' # <<>>
            /\ slots["possible_diseases"] # None) =>
           /\ Len(slots'["possible_diseases"][1]) <= Len(slots["possible_diseases"][1])
           /\ \A r \in DOMAIN SurvivingRows(slots'["symptoms"][1]) :
                  InList(SurvivingRows(slots'["symptoms"][1])[r],
                         SurvivingRows(slots["symptoms"][1]))]_vars

\* a second recognized turn added a symptom and left fewer candidates than the
\* symptoms of the message alone would
C6_Witness ==
    /\ RecognizedTurn
    /\ Len(slots["symptoms"][1]) > Cardinality(ToSet(new_symptoms))
    /\ Len(slots["possible_diseases"][1]) = 1
    /\ Len(SurvivingRows(new_symptoms)) = 2

(* C7: the symptoms slot only accumulates: after a turn that recognized
   symptoms it holds, each once, the stored symptoms and the symptoms of the
   message; no step removes a symptom from it; it holds only members of the
   symptom vocabulary. *)
C7_SymptomsAccumulate ==
    [][/\ (last_action' = "action_predict_disease" /\ new_symptoms' # <<>>) =>
              /\ slots'["symptoms"] # None
              /\ ToSet(slots'["symptoms"][1]) =
                     ToSet(SlotOrEmptyList("symptoms")) \cup ToSet(new_symptoms')
              /\ Cardinality(ToSet(slots'["symptoms"][1])) = Len(slots'["symptoms"][1])
       /\ slots["symptoms"] # None =>
              /\ slots'["symptoms"] # None
              /\ ToSet(slots["symptoms"][1]) \subseteq ToSet(slots'["symptoms"][1])
       /\ slots'["symptoms"] # None =>
              ToSet(slots'["symptoms"][1]) \subseteq ToSet(all_symptoms)]_vars

\* a message that names a stored symptom twice, in two spellings, was merged
\* into symptoms stored by an earlier turn
C7_Witness ==
    /\ RecognizedTurn
    /\ Len(new_symptoms) = 2
    /\ new_symptoms[1] = new_symptoms[2]
    /\ Len(slots["symptoms"][1]) = 3

(* C8: every symptom column of the loaded table is a member of the symptom
   vocabulary under the name the filter looks it up by, also when a header has
   upper-case letters; hence every symptom a turn recognized is a column of the
   table and constrains the candidate rows. *)
C8_RecognizedSymptomsAreColumns ==
    RecognizedTurn =>
        /\ \A c \in DOMAIN disease_symptoms.columns :
               disease_symptoms.columns[c] # prognosis =>
                   InList(disease_symptoms.columns[c], all_symptoms)
        /\ \A i \in DOMAIN new_symptoms : HasColumn(disease_symptoms, new_symptoms[i])

\* the first row of the info table for the disease d
FirstInfoRow(d) ==
    disease_info[CHOOSE i \in DOMAIN disease_info :
                     /\ disease_info[i].disease = d
                     /\ \A j \in 1 .. (i - 1) : disease_info[j].disease # d]

(* C9: the get-disease-info action changes no slot (it returns no event in any
   branch) and always has an outcome: without a predicted disease it asks for
   one; with a predicted disease that has rows in the info table it reports
   the description, treatment and prevention of the first of them; with a
   predicted disease that has none it says so, naming the disease. *)
C9_GetDiseaseInfoOnlyReports ==
    [][/\ ENABLED GetDiseaseInfo
       /\ last_action' = "action_get_disease_info" =>
              /\ events' = <<>>
              /\ slots' = slots
              /\ slots["predicted_disease"] = None =>
                     utterance' = [kind |-> "which_disease"]
              /\ slots["predicted_disease"] # None =>
                     LET d == slots["predicted_disease"][1]
                     IN  IF \E i \in DOMAIN disease_info : disease_info[i].disease = d
                         THEN utterance' =
                                  [kind |-> "details",
                                   description |-> FirstInfoRow(d).description,
                                   treatment |-> FirstInfoRow(d).treatment,
                                   prevention |-> FirstInfoRow(d).prevention]
                         ELSE utterance' = [kind |-> "no_details", disease |-> d]]_vars

\* the details of a disease with two rows in the info table were reported
C9_Witness ==
    /\ last_action = "action_get_disease_info"
    /\ slots["predicted_disease"] # None
    /\ Len(InfoRows(slots["predicted_disease"][1])) = 2
    /\ utterance.kind = "details"
    /\ events = <<>>

(* C13 as stated: in every reachable state, a predicted_disease that is set
   is a member of possible_diseases. *)
C13_PredictionIsACandidate ==
    slots["predicted_disease"] # None =>
        /\ slots["possible_diseases"] # None
        /\ InList(slots["predicted_disease"][1], slots["possible_diseases"][1])

(* C13, amended: in every reachable state, a predicted_disease that is set is
   the only entry of possible_diseases, or possible_diseases is empty because
   a later turn found no matching row. *)
C13_PredictionIsTheCandidateOrNoneIsLeft ==
    slots["predicted_disease"] # None =>
        \/ slots["possible_diseases"] = Some(<<slots["predicted_disease"][1]>>)
        \/ slots["possible_diseases"] = Some(<<>>)

\* the details of a predicted disease were reported after a later turn had
\* found no matching row
C13_Witness ==
    /\ last_action = "action_get_disease_info"
    /\ utterance.kind = "details"
    /\ slots["predicted_disease"] = Some("flu")
    /\ slots["possible_diseases"] = Some(<<>>)
    /\ Len(slots["symptoms"][1]) = 3

(* C14: once a turn has set predicted_disease to d, every later state of the
   conversation has predicted_disease = d: no turn of either action clears it
   or replaces it by another disease. *)
C14_PredictionIsKept ==
    [][slots["predicted_disease"] # None =>
           slots'["predicted_disease"] = slots["predicted_disease"]]_vars

\* on a table of one row, a second turn added a symptom and found the row the
\* first turn had predicted
C14_Witness ==
    /\ RecognizedTurn
    /\ Wrote("predicted_disease")
    /\ Len(disease_symptoms.rows) = 1
    /\ Len(slots["symptoms"][1]) > Cardinality(ToSet(new_symptoms))

(* C15: no match is absorbing: once possible_diseases is [] with symptoms
   stored, every later turn that recognizes a symptom ends in no match as
   well, and possible_diseases stays []. *)
C15_NoMatchIsAbsorbing ==
    [][(slots["possible_diseases"] = Some(<<>>) /\ slots["symptoms"] # None) =>
           /\ slots'["possible_diseases"] = Some(<<>>)
           /\ (last_action' = "action_predict_disease" /\ new_symptoms' # <<>>) =>
                  /\ utterance' = [kind |-> "no_match"]
                  /\ EventKeys' = <<"symptoms", "possible_diseases">>]_vars

\* a turn that added a symptom ended in no match in a conversation that had
\* no match before, on a table with rows
C15_Witness ==
    /\ RecognizedTurn
    /\ utterance.kind = "no_match"
    /\ Len(slots["symptoms"][1]) = 2
    /\ Len(new_symptoms) = 1
    /\ SurvivingRows(SubSeq(slots["symptoms"][1], 1, 1)) = <<>>
    /\ SurvivingRows(SubSeq(slots["symptoms"][1], 2, 2)) = <<>>
    /\ disease_symptoms.rows # <<>>

\* no symptom of remaining_symptoms_to_ask is stored in symptoms, and each has
\* a 1 in its column in a row surviving the stored symptoms
RemainingAreUnknownAndExhibited ==
    \A i \in DOMAIN slots["remaining_symptoms_to_ask"][1] :
        LET sym == slots["remaining_symptoms_to_ask"][1][i]
        IN  /\ ~InList(sym, slots["symptoms"][1])
            /\ \E c \in DOMAIN all_symptoms, r \in DOMAIN SurvivingRows(slots["symptoms"][1]) :
                   /\ all_symptoms[c] = sym
                   /\ SurvivingRows(slots["symptoms"][1])[r][c] = 1

(* C16 as stated: in every reachable state remaining_symptoms_to_ask holds no
   symptom of the symptoms slot and only symptoms present in a row of the
   current candidates, also after later turns that end in a unique match or
   in no match. *)
C16_RemainingStayUnknownAndExhibited ==
    slots["remaining_symptoms_to_ask"] # None => RemainingAreUnknownAndExhibited

(* C16, amended: in every reachable state in which the last turn that
   recognized a symptom was ambiguous (possible_diseases has two or more
   entries), remaining_symptoms_to_ask holds no symptom of the symptoms slot
   and only symptoms present in a row of the current candidates. *)
C16_RemainingUnknownAndExhibitedWhileAmbiguous ==
    (slots["possible_diseases"] # None /\ Len(slots["possible_diseases"][1]) >= 2) =>
        /\ slots["remaining_symptoms_to_ask"] # None
        /\ RemainingAreUnknownAndExhibited

\* a second ambiguous turn wrote the symptoms to ask anew, the symptom it
\* added being one the first turn had asked for
C16_Witness ==
    /\ RecognizedTurn
    /\ Wrote("remaining_symptoms_to_ask")
    /\ Len(slots["symptoms"][1]) = 2
    /\ Len(new_symptoms) = 1
    /\ Len(slots["remaining_symptoms_to_ask"][1]) = 5
    /\ HasColumn(disease_symptoms, slots["symptoms"][1][1])
    /\ HasColumn(disease_symptoms, slots["symptoms"][1][2])

-----------------------------------------------------------------------------
(* Properties of the extractor *)

\* the extractor has run on latest_message
Extracted == last_action = "clean_symptom_input"

\* p occurs in s
IsSubstring(p, s) == \E k \in 0 .. (Len(s) - Len(p)) : StartsWith(Drop(s, k), p)

(* C10 as stated: for every text none of whose tokens, delimited by commas,
   whitespace and the ends of the text, is a vocabulary symptom, the extractor
   returns the empty list. *)
C10_NoVocabularyTokenGivesEmpty ==
    (/\ Extracted
     /\ \A i \in DOMAIN Split(Lower(latest_message)) :
            ~InList(Strip(Split(Lower(latest_message))[i]), all_symptoms))
        => new_symptoms = <<>>

(* C10, amended: for every text in whose lower-cased form no vocabulary
   symptom occurs, as a token or inside one, the extractor returns the empty
   list. *)
C10_NoVocabularyOccurrenceGivesEmpty ==
    (/\ Extracted
     /\ \A i \in DOMAIN all_symptoms :
            ~IsSubstring(all_symptoms[i], Lower(latest_message)))
        => new_symptoms = <<>>

\* the extractor returned nothing for a text in which a filler phrase stands
\* between the two halves of a symptom
C10_Witness ==
    /\ Extracted
    /\ latest_message = <<"f", "e", "a", "n", "d", "v", "e", "r">>
    /\ \A i \in DOMAIN all_symptoms :
           ~IsSubstring(all_symptoms[i], Lower(latest_message))
    /\ new_symptoms = <<>>


\* the text is a list of vocabulary symptoms separated by commas or whitespace
IsCleanList(text) ==
    \A i \in DOMAIN Split(text) : InList(Split(text)[i], all_symptoms)

(* C11: the extractor is idempotent on clean lists: from a comma- or
   space-separated list of vocabulary symptoms it returns that same list. *)
C11_CleanListsAreFixed ==
    (Extracted /\ IsCleanList(latest_message)) =>
        new_symptoms = Split(latest_message)

(* C17: extraction is complete for well-separated input: every vocabulary
   symptom that occurs in the text as a whole token, delimited by commas,
   whitespace or the ends of the text, is in the returned list, whatever the
   vocabulary. *)
C17_WholeTokensAreExtracted ==
    Extracted =>
        \A i \in DOMAIN Split(Lower(latest_message)) :
            InList(Split(Lower(latest_message))[i], all_symptoms) =>
                InList(Split(Lower(latest_message))[i], new_symptoms)

====
